---- MODULE Spec2Model ----
(***************************************************************************)
(* TileMapServiceImageryProvider (Source/Scene/TileMapServiceImageryProvider.js) *)
(* as a state machine: the constructor issues the metadata fetch, the      *)
(* callbacks metadataSuccess / metadataFailure resolve the configuration,  *)
(* and requestImage / the accessors read it.                               *)
(*                                                                         *)
(* JavaScript values are boxed: <<>> is undefined, <<v>> is the value v.   *)
(* Angles are integers in units of half a degree (PI = 360 units), so that *)
(* degrees -> radians is a real conversion; projected Mercator lengths are *)
(* integers in units of a/2 per angle unit (a = the ellipsoid's radius).   *)
(***************************************************************************)
EXTENDS Integers, Sequences, FiniteSets, TLC

VARIABLES
    options,        \* the constructor's options object (never written after construction)
    that,           \* the provider's fields (this._ready, this._fileExtension, ...)
    metadataError,  \* the closure variable metadataError (a TileProviderError or undefined)
    fetch,          \* the metadata request: "inflight" or "idle"
    requests,       \* number of times requestMetadata has run
    callbacks,      \* number of times metadataSuccess or metadataFailure has run
    raised,         \* number of events raised on this._errorEvent
    xml,            \* the file whose DOM the last metadataSuccess was handed (boxed)
    locals,         \* local variables of the last metadataSuccess run (level: the
                    \* minimumLevel read at line 242; derived: the rectangle of line 221)
    outcome,        \* how the last callback ended: "pending", "ready", "fatal", "threw", "fallback"
    response        \* what the last requestImage / accessor call returned or threw

vars == <<options, that, metadataError, fetch, requests, callbacks, raised, xml, locals, outcome, response>>

-----------------------------------------------------------------------------
(* JavaScript helpers *)

Undef == <<>>

defined(v) == v # Undef

defaultValue(a, b) == IF a # Undef THEN a ELSE b

Abs(n) == IF n < 0 THEN -n ELSE n

RECURSIVE Pow2(_)
Pow2(n) == IF n = 0 THEN 1 ELSE 2 * Pow2(n - 1)

\* The numerals that occur as attribute values of the documents of the model.
Numerals ==
    [s \in {"0", "1", "2", "3", "10", "20", "30", "40", "128", "256",
            "-180", "-90", "90", "180", "-720", "720", "0.0", "360"} |->
        CASE s = "0" -> 0 [] s = "1" -> 1 [] s = "2" -> 2 [] s = "3" -> 3
          [] s = "10" -> 10 [] s = "20" -> 20 [] s = "30" -> 30 [] s = "40" -> 40
          [] s = "128" -> 128 [] s = "256" -> 256
          [] s = "-180" -> -180 [] s = "-90" -> -90 [] s = "90" -> 90 [] s = "180" -> 180
          [] s = "-720" -> -720 [] s = "720" -> 720 [] s = "0.0" -> 0 [] s = "360" -> 360]

parseInt(s) == <<Numerals[s]>>

parseFloat(s) == Numerals[s]

-----------------------------------------------------------------------------
(* Core/Math, Core/Cartographic, Core/Rectangle *)

PI == 360

TWO_PI == 2 * PI

toRadians(degrees) == (degrees * PI) \div 180

Cartographic(lon, lat) == [longitude |-> lon, latitude |-> lat]

CartographicFromDegrees(lon, lat) == Cartographic(toRadians(lon), toRadians(lat))

Cartesian2(px, py) == [x |-> px, y |-> py]

Rectangle(w, s, e, n) == [west |-> w, south |-> s, east |-> e, north |-> n]

RectangleMaxValue == Rectangle(-PI, -(PI \div 2), PI, PI \div 2)

RectangleClone(r) == IF defined(r) THEN <<r[1]>> ELSE Undef

RectangleSouthwest(r) == Cartographic(r.west, r.south)

RectangleNortheast(r) == Cartographic(r.east, r.north)

RectangleContains(r, p) ==
    LET wraps == r.east < r.west
        east  == IF wraps THEN r.east + TWO_PI ELSE r.east
        lon   == IF wraps /\ p.longitude < 0 THEN p.longitude + TWO_PI ELSE p.longitude
    IN  /\ lon >= r.west
        /\ lon <= east
        /\ p.latitude >= r.south
        /\ p.latitude <= r.north

-----------------------------------------------------------------------------
(* Core/WebMercatorProjection: the Gudermannian, piecewise linear through  *)
(* the latitudes of the level-3 tile boundaries (41, 66.5, 79, 85 degrees) *)
(* and through 89.5 degrees at twice the square's half-width.              *)

MercatorRadius == 2

MercatorHalfWidth == MercatorRadius * PI

MercatorMaximumLatitude == 170

MercatorKnots ==
    << [y |-> 0, lat |-> 0], [y |-> 180, lat |-> 82], [y |-> 360, lat |-> 133],
       [y |-> 540, lat |-> 158], [y |-> 720, lat |-> 170], [y |-> 1440, lat |-> 179] >>

RECURSIVE mercatorAngleToGeodeticLatitude(_)
mercatorAngleToGeodeticLatitude(y) ==
    IF y < 0 THEN -mercatorAngleToGeodeticLatitude(-y)
    ELSE IF y >= 1440 THEN 179
    ELSE LET i == CHOOSE k \in 1..5 : MercatorKnots[k].y <= y /\ y < MercatorKnots[k + 1].y
             a == MercatorKnots[i]
             b == MercatorKnots[i + 1]
         IN  a.lat + ((y - a.y) * (b.lat - a.lat)) \div (b.y - a.y)

RECURSIVE geodeticLatitudeToMercatorAngle(_)
geodeticLatitudeToMercatorAngle(lat) ==
    IF lat < 0 THEN -geodeticLatitudeToMercatorAngle(-lat)
    ELSE IF lat >= MercatorMaximumLatitude THEN MercatorHalfWidth
    ELSE LET i == CHOOSE k \in 1..4 : MercatorKnots[k].lat <= lat /\ lat < MercatorKnots[k + 1].lat
             a == MercatorKnots[i]
             b == MercatorKnots[i + 1]
         IN  a.y + ((lat - a.lat) * (b.y - a.y)) \div (b.lat - a.lat)

project(p) == Cartesian2(p.longitude * MercatorRadius, geodeticLatitudeToMercatorAngle(p.latitude))

unproject(c) == Cartographic(c.x \div MercatorRadius, mercatorAngleToGeodeticLatitude(c.y))

-----------------------------------------------------------------------------
(* Core/GeographicTilingScheme and Core/WebMercatorTilingScheme.  A scheme *)
(* is [type, ellipsoid, owner]; owner tells the caller's instance from one *)
(* the provider constructed.                                               *)

GeographicTilingScheme(ellipsoid) ==
    [type |-> "Geographic", ellipsoid |-> defaultValue(ellipsoid, <<"WGS84">>), owner |-> "provider"]

WebMercatorTilingScheme(ellipsoid) ==
    [type |-> "WebMercator", ellipsoid |-> defaultValue(ellipsoid, <<"WGS84">>), owner |-> "provider"]

isGeographic(scheme) == scheme.type = "Geographic"

SchemeRectangle(scheme) ==
    IF isGeographic(scheme) THEN RectangleMaxValue
    ELSE Rectangle(-PI, -MercatorMaximumLatitude, PI, MercatorMaximumLatitude)

getNumberOfXTilesAtLevel(scheme, level) ==
    (IF isGeographic(scheme) THEN 2 ELSE 1) * Pow2(level)

getNumberOfYTilesAtLevel(scheme, level) == Pow2(level)

\* undefined when the position is outside the scheme's rectangle
positionToTileXY(scheme, position, level) ==
    LET rect   == SchemeRectangle(scheme)
        xTiles == getNumberOfXTilesAtLevel(scheme, level)
        yTiles == getNumberOfYTilesAtLevel(scheme, level)
        clampX(i) == IF i >= xTiles THEN xTiles - 1 ELSE i
        clampY(i) == IF i >= yTiles THEN yTiles - 1 ELSE i
    IN  IF ~RectangleContains(rect, position) THEN Undef
        ELSE IF isGeographic(scheme)
        THEN << Cartesian2(
                  clampX(((position.longitude - rect.west) * xTiles) \div (rect.east - rect.west)),
                  clampY(((rect.north - position.latitude) * yTiles) \div (rect.north - rect.south))) >>
        ELSE LET m == project(position)
             IN  << Cartesian2(
                      clampX(((m.x + MercatorHalfWidth) * xTiles) \div (2 * MercatorHalfWidth)),
                      clampY(((MercatorHalfWidth - m.y) * yTiles) \div (2 * MercatorHalfWidth))) >>

-----------------------------------------------------------------------------
(* The capabilities document: a DOM tree of nodes. *)

NoAttributes == [a \in {} |-> ""]

Node(name, attrs, children, text) ==
    [nodeName |-> name, attributes |-> attrs, childNodes |-> children, textContent |-> text]

getAttribute(node, name) == node.attributes[name]

\* /tileformat/i, /tileset/i, /tilesets/i, /boundingbox/i, /srs/i on the tag names of the model
tileFormatRegex(name) == name \in {"TileFormat"}

tileSetRegex(name) == name \in {"TileSet", "TileSets"}

tileSetsRegex(name) == name \in {"TileSets"}

bboxRegex(name) == name \in {"BoundingBox"}

srsRegex(name) == name \in {"SRS"}

\* lines 149-154: the TileSet children of one TileSets node, appended to the list
RECURSIVE collectTileSets(_, _, _)
collectTileSets(tileSetNodes, j, tilesetsList) ==
    IF j > Len(tileSetNodes) THEN tilesetsList
    ELSE collectTileSets(tileSetNodes, j + 1,
            IF tileSetRegex(tileSetNodes[j].nodeName)
            THEN Append(tilesetsList, tileSetNodes[j])
            ELSE tilesetsList)

\* lines 135-136: format, bbox, tilesets, srs undefined, tilesetsList empty
NoNodes == [format |-> Undef, bbox |-> Undef, tilesets |-> Undef, srs |-> Undef, tilesetsList |-> <<>>]

\* lines 141-160: the loop over the root element's children
RECURSIVE scanNodes(_, _, _)
scanNodes(nodeList, i, found) ==
    IF i > Len(nodeList) THEN found
    ELSE LET n == nodeList[i]
         IN  scanNodes(nodeList, i + 1,
                IF tileFormatRegex(n.nodeName) THEN [found EXCEPT !.format = <<n>>]
                ELSE IF tileSetsRegex(n.nodeName)
                THEN [found EXCEPT !.tilesets = <<n>>,
                                   !.tilesetsList = collectTileSets(n.childNodes, 1, @)]
                ELSE IF bboxRegex(n.nodeName) THEN [found EXCEPT !.bbox = <<n>>]
                ELSE IF srsRegex(n.nodeName) THEN [found EXCEPT !.srs = <<n.textContent>>]
                ELSE found)

-----------------------------------------------------------------------------
(* The documents of the model. *)

Profiles == {"geodetic", "mercator", "global-geodetic", "global-mercator", "unknown-value"}

\* the order attributes of the TileSet nodes, in document order
OrderLists == { <<"1", "2">>, <<"2", "3">>, <<"3", "1">> }

BoundingBoxes ==
    { [minx |-> "10", miny |-> "20", maxx |-> "30", maxy |-> "40"],
      [minx |-> "-180", miny |-> "-90", maxx |-> "180", maxy |-> "90"],
      [minx |-> "-720", miny |-> "-720", maxx |-> "720", maxy |-> "720"] }

TitleNode == Node("Title", NoAttributes, <<>>, "tiles")

SrsNode == Node("SRS", NoAttributes, <<>>, "EPSG:4326")

FormatNode ==
    Node("TileFormat", [extension |-> "png", width |-> "128", height |-> "256"], <<>>, "")

BBoxNode(b) == Node("BoundingBox", b, <<>>, "")

RECURSIVE TileSetNodes(_)
TileSetNodes(orders) ==
    IF orders = <<>> THEN <<>>
    ELSE <<Node("TileSet", [order |-> Head(orders)], <<>>, "")>> \o TileSetNodes(Tail(orders))

TileSetsNode(profile, orders) ==
    Node("TileSets", [profile |-> profile], TileSetNodes(orders), "")

Document(children) == [childNodes |-> <<Node("TileMap", NoAttributes, children, "")>>]

\* A served file is described by what it contains: whether it has a TileFormat node,
\* the profile of its TileSets node (undefined: no such node), the orders of the
\* TileSet nodes, and the BoundingBox attributes (undefined: no such node).
File(format, profile, orders, bbox) ==
    [format |-> format, profile |-> profile, orders |-> orders, bbox |-> bbox]

\* loadXML: the DOM of a served file
loadXML(file) ==
    Document(<<TitleNode, SrsNode>>
             \o (IF defined(file.bbox) THEN <<BBoxNode(file.bbox[1])>> ELSE <<>>)
             \o (IF file.format THEN <<FormatNode>> ELSE <<>>)
             \o (IF defined(file.profile) THEN <<TileSetsNode(file.profile[1], file.orders)>> ELSE <<>>))

WellFormedDocs ==
    { File(TRUE, <<p>>, o, <<b>>) : p \in Profiles, o \in OrderLists, b \in BoundingBoxes }

SomeBBox == [minx |-> "10", miny |-> "20", maxx |-> "30", maxy |-> "40"]

\* files that lack a node the resolver reads
DefectiveDocs ==
    { File(FALSE, <<"mercator">>, <<"1", "2">>, <<SomeBBox>>),
      File(TRUE, Undef, <<>>, <<SomeBBox>>),
      File(TRUE, <<"mercator">>, <<>>, <<SomeBBox>>),
      File(TRUE, <<"global-geodetic">>, <<"1", "2">>, Undef) }

Docs == WellFormedDocs \cup DefectiveDocs

\* the files served where tiles are requested too
RequestDocs ==
    { File(TRUE, <<p>>, <<"1", "2">>, <<b>>) :
        p \in Profiles, b \in {SomeBBox, [minx |-> "-180", miny |-> "-90", maxx |-> "180", maxy |-> "90"]} }
    \cup DefectiveDocs

-----------------------------------------------------------------------------
(* Bounds and the inputs of the model. *)

MaxRetries == 1     \* a retrying listener asks for a retry while timesRetried < MaxRetries

MaxLevel == 1       \* tile requests are made for levels 0..MaxLevel

MaxColumn == 0      \* ... and columns 0..MaxColumn

BaseUrl == "http://host/tms"

ExtensionOverrides == {Undef, <<"jpg">>}

WidthOverrides == {Undef, <<512>>}

HeightOverrides == {Undef, <<512>>}

MinimumLevelOverrides == {Undef, <<2>>}

MaximumLevelOverrides == {Undef, <<1>>}

\* undefined, Rectangle.MAX_VALUE, and a band from 88 to 89 degrees north
RectangleOverrides == {Undef, <<RectangleMaxValue>>, <<Rectangle(-PI, 176, PI, 178)>>}

CallerScheme(type) == [type |-> type, ellipsoid |-> <<"WGS84">>, owner |-> "caller"]

TilingSchemeOverrides == {Undef, <<CallerScheme("Geographic")>>, <<CallerScheme("WebMercator")>>}

ProxyOverrides == {Undef, <<"/proxy/?">>}

\* what is subscribed to errorEvent: nothing, or a listener that sets error.retry
ListenerSets == { <<>>, <<"retry">> }

\* the options of the resolution's specification: every combination of overrides
OptionsSet ==
    [ url : {BaseUrl}, proxy : {Undef}, fileExtension : ExtensionOverrides,
      tileWidth : WidthOverrides, tileHeight : HeightOverrides,
      minimumLevel : MinimumLevelOverrides, maximumLevel : MaximumLevelOverrides,
      rectangle : RectangleOverrides, tilingScheme : TilingSchemeOverrides,
      ellipsoid : {Undef} ]

\* the options of the whole provider's specification, where tiles are requested too
RequestOptionsSet ==
    [ url : {BaseUrl}, proxy : ProxyOverrides, fileExtension : ExtensionOverrides,
      tileWidth : {Undef}, tileHeight : {Undef},
      minimumLevel : MinimumLevelOverrides, maximumLevel : {Undef},
      rectangle : {Undef, <<RectangleMaxValue>>}, tilingScheme : TilingSchemeOverrides,
      ellipsoid : {Undef} ]

-----------------------------------------------------------------------------
(* Core/joinUrls, Core/TileProviderError, the proxy *)

joinUrls(first, second) == first \o "/" \o second

getURL(proxy, resource) == proxy \o resource

\* the listener's decision: error.retry after the event was raised
listenerRetries(listeners, timesRetried) ==
    /\ listeners # <<>>
    /\ listeners[1] = "retry"
    /\ timesRetried < MaxRetries

\* TileProviderError.handleError: the error object it returns
handleError(previousError, listeners, message) ==
    LET timesRetried == IF defined(previousError) THEN previousError[1].timesRetried + 1 ELSE 0
    IN  << [message |-> message, timesRetried |-> timesRetried,
            retry |-> listenerRetries(listeners, timesRetried)] >>

-----------------------------------------------------------------------------
(* metadataSuccess, lines 129-252 *)

NoLocals ==
    [tilingSchemeName |-> Undef, flipXY |-> FALSE, derived |-> Undef,
     level |-> Undef, tileCount |-> Undef, message |-> Undef]

\* formatStep with the document's values taking precedence over the overrides
formatStepDocumentFirst(t, format) ==
    [t EXCEPT !.fileExtension = defaultValue(<<getAttribute(format, "extension")>>, @),
              !.tileWidth = defaultValue(parseInt(getAttribute(format, "width")), @),
              !.tileHeight = defaultValue(parseInt(getAttribute(format, "height")), @)]

\* lines 162-164
formatStep(t, format) ==
    [t EXCEPT !.fileExtension = defaultValue(@, <<getAttribute(format, "extension")>>),
              !.tileWidth = defaultValue(@, parseInt(getAttribute(format, "width"))),
              !.tileHeight = defaultValue(@, parseInt(getAttribute(format, "height")))]

\* levelStep reading minimumLevel from the last TileSet and maximumLevel from the first
levelStepSwapped(t, tilesetsList) ==
    [t EXCEPT !.minimumLevel =
                  defaultValue(@, parseInt(getAttribute(tilesetsList[Len(tilesetsList)], "order"))),
              !.maximumLevel = defaultValue(@, parseInt(getAttribute(tilesetsList[1], "order")))]

\* lines 165-166
levelStep(t, tilesetsList) ==
    [t EXCEPT !.minimumLevel = defaultValue(@, parseInt(getAttribute(tilesetsList[1], "order"))),
              !.maximumLevel =
                  defaultValue(@, parseInt(getAttribute(tilesetsList[Len(tilesetsList)], "order")))]

\* flipXYOf keyed on the geodetic profiles instead of the legacy ones
flipXYOfGeodetic(tilingSchemeName) ==
    tilingSchemeName = "geodetic" \/ tilingSchemeName = "global-geodetic"

\* lines 173-176
flipXYOf(tilingSchemeName) == tilingSchemeName = "geodetic" \/ tilingSchemeName = "mercator"

\* schemeForProfile taking every profile with "geodetic" in its name but geodetic
\* itself for a Mercator one
schemeForProfileLegacyOnly(tilingSchemeName, ellipsoid) ==
    IF tilingSchemeName = "geodetic"
    THEN <<GeographicTilingScheme(ellipsoid)>>
    ELSE IF tilingSchemeName \in {"global-geodetic", "mercator", "global-mercator"}
    THEN <<WebMercatorTilingScheme(ellipsoid)>>
    ELSE Undef

\* lines 179-182: the scheme constructed for a profile, undefined for an unsupported one
schemeForProfile(tilingSchemeName, ellipsoid) ==
    IF tilingSchemeName = "geodetic" \/ tilingSchemeName = "global-geodetic"
    THEN <<GeographicTilingScheme(ellipsoid)>>
    ELSE IF tilingSchemeName = "mercator" \/ tilingSchemeName = "global-mercator"
    THEN <<WebMercatorTilingScheme(ellipsoid)>>
    ELSE Undef

\* line 184
unsupportedProfileMessage(url, tilingSchemeName) ==
    joinUrls(url, "tilemapresource.xml") \o "specifies an unsupported profile attribute, "
        \o tilingSchemeName \o "."

\* lines 200-221
deriveRectangle(flipXY, bbox, tilingScheme) ==
    IF flipXY
    THEN LET swXY == Cartesian2(parseFloat(getAttribute(bbox, "miny")), parseFloat(getAttribute(bbox, "minx")))
             neXY == Cartesian2(parseFloat(getAttribute(bbox, "maxy")), parseFloat(getAttribute(bbox, "maxx")))
             sw   == CartographicFromDegrees(swXY.x, swXY.y)
             ne   == CartographicFromDegrees(neXY.x, neXY.y)
         IN  Rectangle(sw.longitude, sw.latitude, ne.longitude, ne.latitude)
    ELSE LET swXY == Cartesian2(parseFloat(getAttribute(bbox, "minx")), parseFloat(getAttribute(bbox, "miny")))
             neXY == Cartesian2(parseFloat(getAttribute(bbox, "maxx")), parseFloat(getAttribute(bbox, "maxy")))
             sw   == IF isGeographic(tilingScheme) THEN CartographicFromDegrees(swXY.x, swXY.y)
                     ELSE unproject(swXY)
             ne   == IF isGeographic(tilingScheme) THEN CartographicFromDegrees(neXY.x, neXY.y)
                     ELSE unproject(neXY)
         IN  Rectangle(sw.longitude, sw.latitude, ne.longitude, ne.latitude)

\* lines 226-237
clampRectangle(r, bounds) ==
    [west  |-> IF r.west < bounds.west THEN bounds.west ELSE r.west,
     east  |-> IF r.east > bounds.east THEN bounds.east ELSE r.east,
     south |-> IF r.south < bounds.south THEN bounds.south ELSE r.south,
     north |-> IF r.north > bounds.north THEN bounds.north ELSE r.north]

\* line 244
tileCountOf(swTile, neTile) ==
    (Abs(neTile.x - swTile.x) + 1) * (Abs(neTile.y - swTile.y) + 1)

\* relaxMinimumLevel with the boundary at four tiles
relaxMinimumLevelAtFour(minimumLevel, tileCount) ==
    IF tileCount >= 4 THEN <<0>> ELSE minimumLevel

\* lines 245-247
relaxMinimumLevel(minimumLevel, tileCount) ==
    IF tileCount > 4 THEN <<0>> ELSE minimumLevel

\* line 251 / 264: resolving a deferred that is already settled does nothing
resolvePromise(state) == IF state = "pending" THEN "resolved" ELSE state

\* rejectPromise that leaves the promise as it is
rejectPromiseSkipped(state) == state

\* line 186
rejectPromise(state) == IF state = "pending" THEN "rejected" ELSE state

\* How a run of the callback ends: the fields it leaves, how it ended ("ready",
\* "fatal": the unsupported-profile return, "threw": a TypeError escaped the
\* callback), and its local variables.
End(fields, how, loc) == [that |-> fields, outcome |-> how, locals |-> loc]

\* lines 242-251
tilesStage(t, loc, tilingScheme) ==
    LET rect   == t.rectangle[1]
        swTile == positionToTileXY(tilingScheme, RectangleSouthwest(rect), t.minimumLevel[1])
        neTile == positionToTileXY(tilingScheme, RectangleNortheast(rect), t.minimumLevel[1])
    IN  IF ~defined(swTile) \/ ~defined(neTile) THEN End(t, "threw", loc)            \* line 244
        ELSE End([t EXCEPT !.minimumLevel = relaxMinimumLevel(@, tileCountOf(swTile[1], neTile[1])),
                           !.ready = TRUE,
                           !.readyPromise = resolvePromise(@)],
                 "ready",
                 [loc EXCEPT !.level = t.minimumLevel,
                             !.tileCount = <<tileCountOf(swTile[1], neTile[1])>>])

\* lines 194-237
rectangleStage(t, loc, found, tilingScheme) ==
    IF defined(t.rectangle)
    THEN tilesStage([t EXCEPT !.rectangle = <<clampRectangle(@[1], SchemeRectangle(tilingScheme))>>],
                    loc, tilingScheme)
    ELSE IF ~defined(found.bbox) THEN End(t, "threw", loc)                          \* line 201 / 208
    ELSE LET derived == deriveRectangle(loc.flipXY, found.bbox[1], tilingScheme)
         IN  tilesStage([t EXCEPT !.rectangle = <<clampRectangle(derived, SchemeRectangle(tilingScheme))>>],
                        [loc EXCEPT !.derived = <<derived>>], tilingScheme)

\* lines 178-191
schemeStage(t, opts, loc, found) ==
    LET chosen == IF defined(t.tilingScheme) THEN t.tilingScheme
                  ELSE schemeForProfile(loc.tilingSchemeName[1], opts.ellipsoid)
    IN  IF ~defined(chosen)                                                         \* lines 183-188
        THEN End(t, "fatal",
                 [loc EXCEPT !.message = <<unsupportedProfileMessage(opts.url, loc.tilingSchemeName[1])>>])
        ELSE rectangleStage([t EXCEPT !.tilingScheme = chosen], loc, found, chosen[1])

\* lines 171-176
profileStage(t, opts, found) ==
    IF ~defined(found.tilesets) THEN End(t, "threw", NoLocals)                      \* line 171
    ELSE LET tilingSchemeName == getAttribute(found.tilesets[1], "profile")
         IN  schemeStage(t, opts,
                         [NoLocals EXCEPT !.tilingSchemeName = <<tilingSchemeName>>,
                                          !.flipXY = flipXYOf(tilingSchemeName)],
                         found)

\* lines 162-166
scalarStage(t, opts, found) ==
    IF ~defined(found.format) THEN End(t, "threw", NoLocals)                        \* line 162
    ELSE IF found.tilesetsList = <<>>
    THEN End(formatStep(t, found.format[1]), "threw", NoLocals)                     \* line 165
    ELSE profileStage(levelStep(formatStep(t, found.format[1]), found.tilesetsList), opts, found)

\* metadataSuccess(doc) run from fields t
metadataSuccessRun(t, opts, doc) ==
    scalarStage(t, opts, scanNodes(doc.childNodes[1].childNodes, 1, NoNodes))

-----------------------------------------------------------------------------
(* metadataFailure, lines 254-265 *)

\* metadataFailureRun defaulting the provider's fields instead of the options
metadataFailureRunFromFields(t, opts) ==
    LET tilingScheme == IF defined(opts.tilingScheme) THEN opts.tilingScheme
                        ELSE <<WebMercatorTilingScheme(opts.ellipsoid)>>
    IN  [t EXCEPT !.fileExtension = defaultValue(t.fileExtension, <<"png">>),
                  !.tileWidth = defaultValue(t.tileWidth, <<256>>),
                  !.tileHeight = defaultValue(t.tileHeight, <<256>>),
                  !.minimumLevel = defaultValue(t.minimumLevel, <<0>>),
                  !.maximumLevel = opts.maximumLevel,
                  !.tilingScheme = tilingScheme,
                  !.rectangle = defaultValue(opts.rectangle, <<SchemeRectangle(tilingScheme[1])>>),
                  !.ready = TRUE,
                  !.readyPromise = resolvePromise(@)]

metadataFailureRun(t, opts) ==
    LET tilingScheme == IF defined(opts.tilingScheme) THEN opts.tilingScheme
                        ELSE <<WebMercatorTilingScheme(opts.ellipsoid)>>
    IN  [t EXCEPT !.fileExtension = defaultValue(opts.fileExtension, <<"png">>),
                  !.tileWidth = defaultValue(opts.tileWidth, <<256>>),
                  !.tileHeight = defaultValue(opts.tileHeight, <<256>>),
                  !.minimumLevel = defaultValue(opts.minimumLevel, <<0>>),
                  !.maximumLevel = opts.maximumLevel,
                  !.tilingScheme = tilingScheme,
                  !.rectangle = defaultValue(opts.rectangle, <<SchemeRectangle(tilingScheme[1])>>),
                  !.ready = TRUE,
                  !.readyPromise = resolvePromise(@)]

-----------------------------------------------------------------------------
(* buildImageUrl, lines 280-290, and requestImage, lines 548-557 *)

\* flippedRow without the - 1
flippedRowOffByOne(yTiles, y) == yTiles - y

flippedRow(yTiles, y) == yTiles - y - 1

\* line 282, before the proxy
imagePath(t, x, y, level) ==
    LET yTiles == getNumberOfYTilesAtLevel(t.tilingScheme[1], level)
    IN  joinUrls(t.url, ToString(level) \o "/" \o ToString(x) \o "/"
                          \o ToString(flippedRow(yTiles, y)) \o "." \o t.fileExtension[1])

buildImageUrl(t, x, y, level) ==
    LET url == imagePath(t, x, y, level)
    IN  IF defined(t.proxy) THEN getURL(t.proxy[1], url) ELSE url

NoResponse == [kind |-> "none", op |-> "", args |-> <<>>, value |-> Undef]

DeveloperError(op) ==
    [kind |-> "DeveloperError", op |-> op, args |-> <<>>,
     value |-> <<op \o " must not be called before the imagery provider is ready.">>]

\* requestImageRun without the readiness check: a provider constructed with a tiling
\* scheme and a file extension builds a path before it is ready
requestImageRunUnchecked(t, x, y, level) ==
    IF ~t.ready /\ ~(defined(t.tilingScheme) /\ defined(t.fileExtension))
    THEN DeveloperError("requestImage")
    ELSE [kind |-> "image", op |-> "requestImage", args |-> <<x, y, level>>,
          value |-> <<[path |-> imagePath(t, x, y, level), url |-> buildImageUrl(t, x, y, level)]>>]

requestImageRun(t, x, y, level) ==
    IF ~t.ready THEN DeveloperError("requestImage")
    ELSE [kind |-> "image", op |-> "requestImage", args |-> <<x, y, level>>,
          value |-> <<[path |-> imagePath(t, x, y, level), url |-> buildImageUrl(t, x, y, level)]>>]

\* the accessors that throw before the provider is ready, lines 325-430
GuardedAccessors == {"tileWidth", "tileHeight", "maximumLevel", "minimumLevel", "tilingScheme", "rectangle"}

fieldOf(t, name) ==
    CASE name = "tileWidth" -> t.tileWidth
      [] name = "tileHeight" -> t.tileHeight
      [] name = "maximumLevel" -> t.maximumLevel
      [] name = "minimumLevel" -> t.minimumLevel
      [] name = "tilingScheme" -> t.tilingScheme
      [] name = "rectangle" -> t.rectangle

accessorRun(t, name) ==
    IF ~t.ready THEN DeveloperError(name)
    ELSE [kind |-> "value", op |-> name, args |-> <<>>, value |-> fieldOf(t, name)]

-----------------------------------------------------------------------------
(* The state machine *)

\* the constructor, lines 94-124, with what is subscribed to the error event
construct(opts, listeners) ==
    [url |-> opts.url, ready |-> FALSE, readyPromise |-> "pending", proxy |-> opts.proxy,
     errorEvent |-> listeners,
     fileExtension |-> opts.fileExtension, tileWidth |-> opts.tileWidth,
     tileHeight |-> opts.tileHeight, minimumLevel |-> opts.minimumLevel,
     maximumLevel |-> opts.maximumLevel, rectangle |-> RectangleClone(opts.rectangle),
     tilingScheme |-> opts.tilingScheme]

\* the state when the constructor returns: requestMetadata (line 277) has run once
Constructed(optionsSet) ==
    /\ options \in optionsSet
    /\ \E listeners \in ListenerSets : that = construct(options, listeners)
    /\ metadataError = Undef
    /\ fetch = "inflight"
    /\ requests = 1
    /\ callbacks = 0
    /\ raised = 0
    /\ xml = Undef
    /\ locals = NoLocals
    /\ outcome = "pending"
    /\ response = NoResponse

Init == Constructed(RequestOptionsSet)

InitResolve == Constructed(OptionsSet)

\* MetadataSuccess that calls requestMetadata itself after the unsupported-profile
\* error, whether or not a listener asked for a retry
MetadataSuccessAlwaysRetrying(docs) ==
    /\ fetch = "inflight"
    /\ callbacks < 4
    /\ \E doc \in docs :
        LET run == metadataSuccessRun(that, options, loadXML(doc))
            error == handleError(metadataError, that.errorEvent, run.locals.message[1])
        IN  /\ xml' = <<doc>>
            /\ locals' = run.locals
            /\ outcome' = run.outcome
            /\ IF run.outcome = "fatal"
               THEN /\ metadataError' = error
                    /\ raised' = IF that.errorEvent # <<>> THEN raised + 1 ELSE raised
                    /\ fetch' = "inflight"
                    /\ requests' = requests + 1
                    /\ that' = [run.that EXCEPT !.readyPromise = rejectPromise(@)]
               ELSE /\ fetch' = "idle"
                    /\ that' = run.that
                    /\ UNCHANGED <<metadataError, raised, requests>>
    /\ callbacks' = callbacks + 1
    /\ UNCHANGED <<options, response>>

\* the fetch succeeded: metadataSuccess(xml), with handleError's retry (requestMetadata)
MetadataSuccess(docs) ==
    /\ fetch = "inflight"
    /\ \E doc \in docs :
        LET run == metadataSuccessRun(that, options, loadXML(doc))
            error == handleError(metadataError, that.errorEvent, run.locals.message[1])
        IN  /\ xml' = <<doc>>
            /\ locals' = run.locals
            /\ outcome' = run.outcome
            /\ IF run.outcome = "fatal"
               THEN /\ metadataError' = error
                    /\ raised' = IF that.errorEvent # <<>> THEN raised + 1 ELSE raised
                    /\ fetch' = IF error[1].retry THEN "inflight" ELSE "idle"
                    /\ requests' = IF error[1].retry THEN requests + 1 ELSE requests
                    /\ that' = [run.that EXCEPT !.readyPromise = rejectPromise(@)]
               ELSE /\ fetch' = "idle"
                    /\ that' = run.that
                    /\ UNCHANGED <<metadataError, raised, requests>>
    /\ callbacks' = callbacks + 1
    /\ UNCHANGED <<options, response>>

\* MetadataFailure that issues the fetch again
MetadataFailureRefetching ==
    /\ fetch = "inflight"
    /\ callbacks < 4
    /\ fetch' = "inflight"
    /\ requests' = requests + 1
    /\ that' = metadataFailureRun(that, options)
    /\ outcome' = "fallback"
    /\ callbacks' = callbacks + 1
    /\ UNCHANGED <<options, metadataError, raised, xml, locals, response>>

\* MetadataFailure that reports the failed fetch on the error event
MetadataFailureRaising ==
    /\ fetch = "inflight"
    /\ fetch' = "idle"
    /\ that' = metadataFailureRun(that, options)
    /\ outcome' = "fallback"
    /\ callbacks' = callbacks + 1
    /\ raised' = IF that.errorEvent # <<>> THEN raised + 1 ELSE raised
    /\ UNCHANGED <<options, metadataError, requests, xml, locals, response>>

\* the fetch failed: metadataFailure(error)
MetadataFailure ==
    /\ fetch = "inflight"
    /\ fetch' = "idle"
    /\ that' = metadataFailureRun(that, options)
    /\ outcome' = "fallback"
    /\ callbacks' = callbacks + 1
    /\ UNCHANGED <<options, metadataError, requests, raised, xml, locals, response>>

RequestImage ==
    /\ \E level \in 0..MaxLevel, x \in 0..MaxColumn, y \in 0..(Pow2(MaxLevel) - 1) :
        response' = requestImageRun(that, x, y, level)
    /\ UNCHANGED <<options, that, metadataError, fetch, requests, callbacks, raised, xml, locals, outcome>>

ReadAccessor ==
    /\ \E name \in GuardedAccessors : response' = accessorRun(that, name)
    /\ UNCHANGED <<options, that, metadataError, fetch, requests, callbacks, raised, xml, locals, outcome>>

Next == MetadataSuccess(RequestDocs) \/ MetadataFailure \/ RequestImage \/ ReadAccessor

Spec == Init /\ [][Next]_vars

\* the resolution alone, over every combination of overrides
NextResolve == MetadataSuccess(Docs) \/ MetadataFailure

SpecResolve == InitResolve /\ [][NextResolve]_vars

-----------------------------------------------------------------------------
(* Properties *)

\* the resolved configuration of the provider
Config ==
    [fileExtension |-> that.fileExtension, tileWidth |-> that.tileWidth,
     tileHeight |-> that.tileHeight, minimumLevel |-> that.minimumLevel,
     maximumLevel |-> that.maximumLevel, tilingScheme |-> that.tilingScheme,
     rectangle |-> that.rectangle]

\* what the scan found in the document of the last metadataSuccess
LastFound == scanNodes(loadXML(xml[1]).childNodes[1].childNodes, 1, NoNodes)

\* C1: a tile request of a ready provider yields, before the proxy, the path
\* base/level/x/flippedRow.extension with flippedRow = rows(level) - y - 1; for y in
\* 0..rows-1 the flipped row is in 0..rows-1 and flipping it again gives y.
C1_TilePath ==
    response.kind = "image" =>
        LET x == response.args[1]
            y == response.args[2]
            level == response.args[3]
            rows == getNumberOfYTilesAtLevel(that.tilingScheme[1], level)
        IN  /\ response.value[1].path =
                 that.url \o "/" \o ToString(level) \o "/" \o ToString(x) \o "/"
                     \o ToString(rows - y - 1) \o "." \o that.fileExtension[1]
            /\ y \in 0..(rows - 1) =>
                 /\ flippedRow(rows, y) \in 0..(rows - 1)
                 /\ flippedRow(rows, flippedRow(rows, y)) = y

\* level 1 has two rows: row 0 of a provider resolved from a document is file row 1
C1_Witness ==
    /\ response.kind = "image"
    /\ response.args = <<0, 0, 1>>
    /\ outcome = "ready"
    /\ response.value[1].path = "http://host/tms/1/0/1.png"

\* C2 as claimed: a ready provider holds every supplied override of fileExtension,
\* tileWidth, tileHeight, minimumLevel and maximumLevel verbatim.
C2_OverridesVerbatim ==
    that.ready =>
        /\ defined(options.fileExtension) => that.fileExtension = options.fileExtension
        /\ defined(options.tileWidth) => that.tileWidth = options.tileWidth
        /\ defined(options.tileHeight) => that.tileHeight = options.tileHeight
        /\ defined(options.minimumLevel) => that.minimumLevel = options.minimumLevel
        /\ defined(options.maximumLevel) => that.maximumLevel = options.maximumLevel

\* C2 amended: a ready provider holds every supplied override of fileExtension,
\* tileWidth, tileHeight and maximumLevel verbatim; a supplied minimumLevel is held
\* verbatim unless the provider was resolved from a document and the rectangle spans
\* more than four tiles at that level, and then minimumLevel is 0.
C2_OverridesExceptRelaxed ==
    that.ready =>
        /\ defined(options.fileExtension) => that.fileExtension = options.fileExtension
        /\ defined(options.tileWidth) => that.tileWidth = options.tileWidth
        /\ defined(options.tileHeight) => that.tileHeight = options.tileHeight
        /\ defined(options.maximumLevel) => that.maximumLevel = options.maximumLevel
        /\ defined(options.minimumLevel) =>
             that.minimumLevel =
                 IF outcome = "ready" /\ locals.tileCount[1] > 4 THEN <<0>> ELSE options.minimumLevel

\* all five overrides supplied, the document disagrees with each, and the provider is
\* ready from the document with every override in place
C2_Witness ==
    /\ outcome = "ready"
    /\ options.fileExtension = <<"jpg">> /\ options.tileWidth = <<512>>
    /\ options.tileHeight = <<512>> /\ options.minimumLevel = <<2>>
    /\ options.maximumLevel = <<1>>
    /\ getAttribute(LastFound.format[1], "extension") = "png"
    /\ getAttribute(LastFound.tilesetsList[1], "order") = "1"
    /\ locals.tileCount[1] <= 4
    /\ that.fileExtension = <<"jpg">> /\ that.tileWidth = <<512>> /\ that.tileHeight = <<512>>
    /\ that.minimumLevel = <<2>> /\ that.maximumLevel = <<1>>

\* C3: after metadataFailure the provider is ready with fileExtension = override or
\* "png", tileWidth and tileHeight = override or 256, minimumLevel = override or 0,
\* maximumLevel = override or unset, tilingScheme = override or a new WebMercator
\* scheme, rectangle = override or the scheme's rectangle; minimumLevel is not relaxed.
C3_FallbackDefaults ==
    outcome = "fallback" =>
        /\ that.ready
        /\ that.fileExtension = (IF defined(options.fileExtension) THEN options.fileExtension ELSE <<"png">>)
        /\ that.tileWidth = (IF defined(options.tileWidth) THEN options.tileWidth ELSE <<256>>)
        /\ that.tileHeight = (IF defined(options.tileHeight) THEN options.tileHeight ELSE <<256>>)
        /\ that.minimumLevel = (IF defined(options.minimumLevel) THEN options.minimumLevel ELSE <<0>>)
        /\ that.maximumLevel = options.maximumLevel
        /\ that.tilingScheme =
             (IF defined(options.tilingScheme) THEN options.tilingScheme
              ELSE <<[type |-> "WebMercator", ellipsoid |-> <<"WGS84">>, owner |-> "provider"]>>)
        /\ that.rectangle =
             (IF defined(options.rectangle) THEN options.rectangle
              ELSE <<SchemeRectangle(that.tilingScheme[1])>>)

\* the fallback after a document was read and rejected (a retried fetch failed), with
\* a minimumLevel override of 2 over the whole world and no other override
C3_Witness ==
    /\ outcome = "fallback"
    /\ callbacks = 2
    /\ options.minimumLevel = <<2>> /\ options.rectangle = <<RectangleMaxValue>>
    /\ ~defined(options.tileWidth) /\ ~defined(options.maximumLevel)
    /\ that.minimumLevel = <<2>> /\ that.tileWidth = <<256>> /\ that.maximumLevel = Undef
    /\ that.tilingScheme[1].type = "WebMercator"

C5_RectangleWithinScheme ==
    that.ready =>
        LET r == that.rectangle[1]
            b == SchemeRectangle(that.tilingScheme[1])
        IN  /\ r.west <= r.east /\ r.south <= r.north
            /\ b.west <= r.west /\ r.east <= b.east
            /\ b.south <= r.south /\ r.north <= b.north

\* the order attributes of the last document's TileSet nodes never decrease
RECURSIVE Ascending(_)
Ascending(tilesetsList) ==
    \/ Len(tilesetsList) < 2
    \/ /\ parseInt(getAttribute(tilesetsList[1], "order"))[1]
            <= parseInt(getAttribute(tilesetsList[2], "order"))[1]
       /\ Ascending(Tail(tilesetsList))

\* C6 as claimed: in a ready provider with maximumLevel set, both levels are
\* non-negative integers and minimumLevel <= maximumLevel.
C6_LevelsOrdered ==
    (that.ready /\ defined(that.maximumLevel)) =>
        /\ that.minimumLevel[1] \in Nat /\ that.maximumLevel[1] \in Nat
        /\ that.minimumLevel[1] <= that.maximumLevel[1]

\* C6 amended: in a ready provider with maximumLevel set, both levels are non-negative
\* integers; minimumLevel <= maximumLevel holds when the level read before the
\* relaxation (line 242) does not exceed maximumLevel, when the fallback supplied
\* minimumLevel 0, and when neither level is overridden and the first callback
\* resolved the provider from a document whose tileset orders ascend.
C6_LevelsOrderedWhenInputsAre ==
    (that.ready /\ defined(that.maximumLevel)) =>
        /\ that.minimumLevel[1] \in Nat /\ that.maximumLevel[1] \in Nat
        /\ (outcome = "ready" /\ locals.level[1] <= that.maximumLevel[1]) =>
             that.minimumLevel[1] <= that.maximumLevel[1]
        /\ (outcome = "fallback" /\ ~defined(options.minimumLevel)) =>
             that.minimumLevel[1] <= that.maximumLevel[1]
        /\ (/\ outcome = "ready" /\ callbacks = 1
            /\ ~defined(options.minimumLevel) /\ ~defined(options.maximumLevel)
            /\ Ascending(LastFound.tilesetsList)) =>
             that.minimumLevel[1] <= that.maximumLevel[1]

\* no level override, tilesets 2 then 3, few tiles: ready with levels 2..3
C6_Witness ==
    /\ outcome = "ready" /\ callbacks = 1
    /\ ~defined(options.minimumLevel) /\ ~defined(options.maximumLevel)
    /\ Ascending(LastFound.tilesetsList)
    /\ that.minimumLevel = <<2>> /\ that.maximumLevel = <<3>>

\* C7: on the document path, with swTile and neTile the tiles of the clamped
\* rectangle's corners at the resolved minimumLevel and tileCount =
\* (|neTile.x - swTile.x| + 1) * (|neTile.y - swTile.y| + 1), minimumLevel becomes 0
\* when tileCount > 4 and stays as resolved when tileCount <= 4.
C7_Relaxation ==
    outcome = "ready" =>
        LET scheme == that.tilingScheme[1]
            level == locals.level[1]
            sw == positionToTileXY(scheme, RectangleSouthwest(that.rectangle[1]), level)[1]
            ne == positionToTileXY(scheme, RectangleNortheast(that.rectangle[1]), level)[1]
            dx == IF ne.x >= sw.x THEN ne.x - sw.x ELSE sw.x - ne.x
            dy == IF ne.y >= sw.y THEN ne.y - sw.y ELSE sw.y - ne.y
            tileCount == (dx + 1) * (dy + 1)
        IN  /\ locals.tileCount = <<tileCount>>
            /\ tileCount > 4 => that.minimumLevel = <<0>>
            /\ tileCount <= 4 => that.minimumLevel = locals.level

\* exactly four tiles at level 1 (the whole Mercator square): minimumLevel stays 1
C7_Witness ==
    /\ outcome = "ready"
    /\ locals.tileCount = <<4>>
    /\ locals.level = <<1>>
    /\ that.minimumLevel = <<1>>

\* C8: with no rectangle override, the rectangle derived from the bounding box,
\* before clamping, is (miny, minx, maxy, maxx) read as degrees exactly when the
\* profile is geodetic or mercator, whatever the scheme; otherwise it is (minx, miny,
\* maxx, maxy), read as degrees under a Geographic scheme and unprojected otherwise.
C8_DerivedRectangle ==
    (outcome \in {"ready", "threw"} /\ defined(locals.derived)) =>
        LET b == LastFound.bbox[1].attributes
            minx == Numerals[b.minx]
            miny == Numerals[b.miny]
            maxx == Numerals[b.maxx]
            maxy == Numerals[b.maxy]
            profile == locals.tilingSchemeName[1]
            degrees(d) == (d * PI) \div 180
        IN  IF profile \in {"geodetic", "mercator"}
            THEN locals.derived[1] =
                   [west |-> degrees(miny), south |-> degrees(minx),
                    east |-> degrees(maxy), north |-> degrees(maxx)]
            ELSE IF that.tilingScheme[1].type = "Geographic"
            THEN locals.derived[1] =
                   [west |-> degrees(minx), south |-> degrees(miny),
                    east |-> degrees(maxx), north |-> degrees(maxy)]
            ELSE locals.derived[1] =
                   [west |-> unproject([x |-> minx, y |-> miny]).longitude,
                    south |-> unproject([x |-> minx, y |-> miny]).latitude,
                    east |-> unproject([x |-> maxx, y |-> maxy]).longitude,
                    north |-> unproject([x |-> maxx, y |-> maxy]).latitude]

\* profile mercator with bbox 10,20,30,40: southwest (20, 10) degrees, northeast
\* (40, 30) degrees, in half-degree units
C8_Witness ==
    /\ outcome = "ready"
    /\ locals.tilingSchemeName = <<"mercator">>
    /\ LastFound.bbox[1].attributes = [minx |-> "10", miny |-> "20", maxx |-> "30", maxy |-> "40"]
    /\ locals.derived = <<[west |-> 40, south |-> 20, east |-> 80, north |-> 60]>>

\* C9: a call made while the provider is not ready throws the "not ready"
\* DeveloperError and yields no path; a path is yielded only by a ready provider.
C9_NotReadyFailsFast ==
    /\ response.kind = "image" => that.ready
    /\ ~that.ready =>
         \/ response = NoResponse
         \/ /\ response.kind = "DeveloperError"
            /\ response.value =
                 <<response.op \o " must not be called before the imagery provider is ready.">>

\* a tile request after the fatal unsupported-profile error
C9_Witness ==
    /\ outcome = "fatal"
    /\ ~that.ready
    /\ response.kind = "DeveloperError"
    /\ response.op = "requestImage"

\* C10: once the provider is ready, every step leaves it ready with the same
\* configuration.
C10_ReadyIsFinal == [][that.ready => (that'.ready /\ Config' = Config)]_vars

\* a ready provider that has served a tile request
C10_Witness ==
    /\ that.ready
    /\ response.kind = "image"
    /\ fetch = "idle"

\* C11 as claimed: once a document with no tileformat node has been handed to
\* metadataSuccess, whatever the overrides, the provider is not ready and the
\* readiness promise has been completed with a failure (rejected).
C11_MissingFormatRejects ==
    (defined(xml) /\ ~defined(LastFound.format)) =>
        (~that.ready /\ that.readyPromise = "rejected")

C13_FallbackNotifies ==
    [][(callbacks' = callbacks + 1 /\ outcome' = "fallback") =>
           (that'.ready /\ raised' = raised + 1)]_vars

\* C13 amended: a failed fetch makes the provider ready through the fallback in the
\* same step and the fetch is over; nothing is raised on the error event for that
\* failure and no error object is made, whatever is subscribed.
C13_FallbackSilent ==
    [][(callbacks' = callbacks + 1 /\ outcome' = "fallback") =>
           /\ that'.ready
           /\ fetch' = "idle"
           /\ raised' = raised
           /\ metadataError' = metadataError
           /\ requests' = requests]_vars

\* the first fetch failed with a listener subscribed: ready, and nothing was raised
C13_Witness ==
    /\ outcome = "fallback"
    /\ callbacks = 1
    /\ that.errorEvent = <<"retry">>
    /\ that.ready
    /\ raised = 0
    /\ ~defined(metadataError)

\* C14: a provider made ready by metadataSuccess has the caller's tiling scheme
\* instance whenever one was supplied, for any profile, and then no unsupported-profile
\* error is ever made or raised; with none supplied its scheme is one the provider
\* constructed, Geographic exactly when the profile is geodetic or global-geodetic and
\* WebMercator exactly when it is mercator or global-mercator.
C14_SchemeChoice ==
    /\ defined(options.tilingScheme) =>
         /\ outcome # "fatal"
         /\ ~defined(metadataError)
         /\ raised = 0
         /\ that.tilingScheme = options.tilingScheme
    /\ outcome = "ready" =>
         LET profile == getAttribute(LastFound.tilesets[1], "profile")
             scheme == that.tilingScheme[1]
         IN  IF defined(options.tilingScheme)
             THEN scheme = options.tilingScheme[1] /\ scheme.owner = "caller"
             ELSE /\ scheme.owner = "provider"
                  /\ scheme.type \in {"Geographic", "WebMercator"}
                  /\ (scheme.type = "Geographic") <=> (profile \in {"geodetic", "global-geodetic"})
                  /\ (scheme.type = "WebMercator") <=> (profile \in {"mercator", "global-mercator"})

\* the caller's Geographic scheme kept for a document whose profile is not supported
C14_Witness ==
    /\ outcome = "ready"
    /\ options.tilingScheme = <<CallerScheme("Geographic")>>
    /\ getAttribute(LastFound.tilesets[1], "profile") = "unknown-value"
    /\ that.tilingScheme[1].owner = "caller"
    /\ that.tilingScheme[1].type = "Geographic"
    /\ raised = 0

====
